---- MODULE Spec2Model ----
(***************************************************************************)
(* Model of msal-common's response handling:                               *)
(*   ResponseHandler (lib/msal-common/src/response/ResponseHandler.ts)     *)
(*   BaseClient.executePostToTokenEndpoint (client/BaseClient.ts)          *)
(*                                                                         *)
(* JavaScript runs one call at a time until it reaches an await; `running` *)
(* is the call that holds the thread, and a call gives it up exactly at    *)
(* the program points listed in Suspends.                                  *)
(***************************************************************************)
EXTENDS Integers, Sequences, FiniteSets, TLC

(***************************************************************************)
(* Bounds                                                                  *)
(***************************************************************************)
NumCalls == 2
Calls == 1..NumCalls
NoCall == 0

(***************************************************************************)
(* Values                                                                  *)
(***************************************************************************)
\* null / undefined object reference
Null == [isNull |-> TRUE]

\* a field never assigned (this.homeAccountIdentifier before the first call)
Undefined == "undefined"

\* StringUtils.isEmpty: undefined, null or ""
IsEmpty(s) == s \in {"", Undefined}

\* JavaScript truthiness of a string-valued expression
Truthy(s) == s \notin {"", Undefined}

ClientId == "client-1"

\* AuthenticationScheme.POP / AuthenticationScheme.BEARER
POP == "pop"
BEARER == "Bearer"

(***************************************************************************)
(* Collaborators that decode wire values.  A raw value is an opaque string *)
(* on the wire; the tables give what the decoder finds in it.              *)
(***************************************************************************)
\* buildClientInfo(rawClientInfo, crypto): base64-decode + JSON.parse
BuildClientInfo(raw) ==
    CASE raw = "ci.u1.t1" -> [ok |-> TRUE, uid |-> "u1", utid |-> "t1"]
      [] raw = "ci.u2.t1" -> [ok |-> TRUE, uid |-> "u2", utid |-> "t1"]
      [] raw = "ci..t1"   -> [ok |-> TRUE, uid |-> "", utid |-> "t1"]
      [] OTHER            -> [ok |-> FALSE, uid |-> "", utid |-> ""]

\* new AuthToken(rawIdToken, crypto).claims
AuthToken(raw) ==
    CASE raw = "idt.n1.s1" ->
            [rawToken |-> raw,
             claims |-> [nonce |-> "n1", sub |-> "s1", oid |-> "o1", tid |-> "t1"]]
      [] raw = "idt.n1.nosub" ->
            [rawToken |-> raw,
             claims |-> [nonce |-> "n1", sub |-> "", oid |-> "o1", tid |-> "t1"]]
      [] OTHER ->
            [rawToken |-> raw,
             claims |-> [nonce |-> "", sub |-> "", oid |-> "", tid |-> ""]]

\* ProtocolUtils.parseRequestState(crypto, state)
ParseRequestState(state) ==
    CASE state = "st.100.userA" ->
            [ok |-> TRUE, libraryState |-> [ts |-> 100], userRequestState |-> "userA"]
      [] state = "st.nolib.userB" ->
            [ok |-> TRUE, libraryState |-> Null, userRequestState |-> "userB"]
      [] OTHER ->
            [ok |-> FALSE, libraryState |-> Null, userRequestState |-> ""]

\* Authority.generateEnvironmentFromAuthority(authority)
GenerateEnvironmentFromAuthority(authority) == authority.env

(***************************************************************************)
(* ScopeSet: a scope string is a sequence of blank-separated words.        *)
(***************************************************************************)
RECURSIVE SetToSeq(_)
SetToSeq(S) ==
    IF S = {} THEN <<>>
    ELSE LET e == CHOOSE x \in S : TRUE IN <<e>> \o SetToSeq(S \ {e})

\* ScopeSet.fromString / new ScopeSet(array): the set of the words
ScopeSetOf(words) == {words[i] : i \in DOMAIN words}

\* ScopeSet.printScopes / asArray: the words of the set, each once
PrintScopes(S) == SetToSeq(S)

(***************************************************************************)
(* Cache entities (cache/entities).                                        *)
(***************************************************************************)
\* AccountEntity.createAccount: home account id from the decoded client_info
CreateAccount(clientInfoRaw, authority, idToken) ==
    LET ci == BuildClientInfo(clientInfoRaw) IN
    [credentialType |-> "Account",
     homeAccountId |-> ci.uid \o "." \o ci.utid,
     environment |-> GenerateEnvironmentFromAuthority(authority),
     realm |-> idToken.claims.tid,
     accountKind |-> "MSSTS"]

\* AccountEntity.createGenericAccount: home account id from the sub claim
CreateGenericAccount(authority, idToken) ==
    [credentialType |-> "Account",
     homeAccountId |-> idToken.claims.sub,
     environment |-> GenerateEnvironmentFromAuthority(authority),
     realm |-> idToken.claims.tid,
     accountKind |-> IF authority.authorityType = "Adfs" THEN "ADFS" ELSE "Generic"]

CreateIdTokenEntity(homeAccountId, env, idToken, clientId, tenantId) ==
    [credentialType |-> "IdToken", homeAccountId |-> homeAccountId,
     environment |-> env, secret |-> idToken, clientId |-> clientId,
     realm |-> tenantId]

CreateAccessTokenEntity(homeAccountId, env, accessToken, clientId, tenantId, scopes, expiresOn, extExpiresOn, tokenType) ==
    [credentialType |-> "AccessToken", homeAccountId |-> homeAccountId,
     environment |-> env, secret |-> accessToken, clientId |-> clientId,
     realm |-> tenantId, target |-> scopes, expiresOn |-> expiresOn,
     extendedExpiresOn |-> extExpiresOn, tokenType |-> tokenType]

CreateRefreshTokenEntity(homeAccountId, env, refreshToken, clientId, familyId) ==
    [credentialType |-> "RefreshToken", homeAccountId |-> homeAccountId,
     environment |-> env, secret |-> refreshToken, clientId |-> clientId,
     familyId |-> familyId]

CreateAppMetadataEntity(clientId, env, familyId) ==
    [credentialType |-> "AppMetadata", clientId |-> clientId,
     environment |-> env, familyId |-> familyId]

\* AccountEntity.generateAccountKey
GenerateAccountKey(account) ==
    <<account.homeAccountId, account.environment, account.realm>>

\* key under which the store holds an entity
EntityKey(e) ==
    CASE e.credentialType = "Account" ->
            <<"Account", e.homeAccountId, e.environment, e.realm>>
      [] e.credentialType = "AppMetadata" ->
            <<"AppMetadata", e.clientId, e.environment>>
      [] e.credentialType = "AccessToken" ->
            <<"AccessToken", e.homeAccountId, e.environment, e.clientId, e.realm,
              e.target>>
      [] e.credentialType = "IdToken" ->
            <<"IdToken", e.homeAccountId, e.environment, e.clientId, e.realm>>
      [] OTHER ->
            <<"RefreshToken", e.homeAccountId, e.environment, e.clientId>>

(***************************************************************************)
(* CacheManager (cache/CacheManager.ts): the store is the set of entities  *)
(* it holds, at most one per key.                                          *)
(***************************************************************************)
\* the entities of a CacheRecord
RecordEntities(rec) ==
    {rec.account, rec.idToken, rec.accessToken, rec.refreshToken,
     rec.appMetadata} \ {Null}

\* CacheManager.getAccount(key): the account entity or null
GetAccount(st, key) ==
    LET found == {e \in st : e.credentialType = "Account"
                             /\ GenerateAccountKey(e) = key}
    IN IF found = {} THEN Null ELSE CHOOSE e \in found : TRUE

\* CacheManager.saveCacheRecord(cacheRecord): every entity of the record
\* replaces the entity stored under its key
SaveCacheRecord(st, rec) ==
    LET new == RecordEntities(rec)
        keys == {EntityKey(e) : e \in new}
    IN {e \in st : EntityKey(e) \notin keys} \cup new

\* CacheManager.removeAccount(key): the account and the credentials of its
\* home account id in its environment
RemoveAccountFromStore(st, account) ==
    {e \in st :
        \/ e.credentialType = "AppMetadata"
        \/ e.homeAccountId # account.homeAccountId
        \/ e.environment # account.environment}

(***************************************************************************)
(* ResponseHandler: mapping a response to cache entities.                  *)
(***************************************************************************)
\* Faulty variant of GenerateAccountEntity: client_info is looked at before
\* the authority type
GenerateAccountEntityClientInfoFirst(resp, idToken, authority) ==
    IF IsEmpty(resp.client_info) /\ authority.protocolMode = "AAD"
    THEN [err |-> "ClientInfoEmptyError", account |-> Null]
    ELSE IF Truthy(resp.client_info)
    THEN [err |-> "", account |-> CreateAccount(resp.client_info, authority, idToken)]
    ELSE [err |-> "", account |-> CreateGenericAccount(authority, idToken)]

\* generateAccountEntity: [err, account]
GenerateAccountEntity(resp, idToken, authority) ==
    IF authority.authorityType = "Adfs"
    THEN [err |-> "", account |-> CreateGenericAccount(authority, idToken)]
    ELSE IF IsEmpty(resp.client_info) /\ authority.protocolMode = "AAD"
    THEN [err |-> "ClientInfoEmptyError", account |-> Null]
    ELSE IF Truthy(resp.client_info)
    THEN [err |-> "", account |-> CreateAccount(resp.client_info, authority, idToken)]
    ELSE [err |-> "", account |-> CreateGenericAccount(authority, idToken)]

EmptyRecord ==
    [account |-> Null, idToken |-> Null, accessToken |-> Null,
     refreshToken |-> Null, appMetadata |-> Null]

\* Faulty variant of ResponseScopes: the scopes of the request win over
\* those the response declares
ResponseScopesFromRequest(resp, requestScopes) ==
    IF requestScopes # <<>> THEN ScopeSetOf(requestScopes)
    ELSE ScopeSetOf(resp.scope)

\* line 232: the scopes the response declares, else those of the request
ResponseScopes(resp, requestScopes) ==
    IF resp.scope # <<>> THEN ScopeSetOf(resp.scope)
    ELSE ScopeSetOf(requestScopes)

\* Faulty variant of BaselineTimestamp: the timestamp of the library state
\* is ignored
BaselineTimestampNow(libraryState, now) == now

\* lines 235-238: the timestamp expirations are counted from
BaselineTimestamp(libraryState, now) ==
    IF libraryState # Null THEN libraryState.ts ELSE now

\* Faulty variant of GenerateCacheRecord: the app metadata entity is built
\* whenever a refresh token is present
GenerateCacheRecordFamilyByRefresh(hai, resp, idTokenObj, authority, libraryState, requestScopes, now) ==
    LET env == GenerateEnvironmentFromAuthority(authority)
        hasId == ~IsEmpty(resp.id_token)
        acct == IF hasId THEN GenerateAccountEntity(resp, idTokenObj, authority)
                ELSE [err |-> "", account |-> Null]
        cachedIdToken ==
            IF hasId
            THEN CreateIdTokenEntity(hai, env, resp.id_token, ClientId,
                                     idTokenObj.claims.tid)
            ELSE Null
        responseScopes == ResponseScopes(resp, requestScopes)
        timestamp == BaselineTimestamp(libraryState, now)
        tokenExpirationSeconds == timestamp + resp.expires_in
        extendedTokenExpirationSeconds ==
            tokenExpirationSeconds + resp.ext_expires_in
        cachedAccessToken ==
            IF ~IsEmpty(resp.access_token)
            THEN CreateAccessTokenEntity(
                    hai, env, resp.access_token, ClientId,
                    IF idTokenObj # Null THEN idTokenObj.claims.tid
                    ELSE authority.tenant,
                    PrintScopes(responseScopes), tokenExpirationSeconds,
                    extendedTokenExpirationSeconds, resp.token_type)
            ELSE Null
        cachedRefreshToken ==
            IF ~IsEmpty(resp.refresh_token)
            THEN CreateRefreshTokenEntity(hai, env, resp.refresh_token,
                                          ClientId, resp.foci)
            ELSE Null
        cachedAppMetadata ==
            IF ~IsEmpty(resp.refresh_token)
            THEN CreateAppMetadataEntity(ClientId, env, resp.foci)
            ELSE Null
    IN  IF IsEmpty(env)
        THEN [err |-> "InvalidCacheEnvironmentError", record |-> EmptyRecord]
        ELSE IF acct.err # ""
        THEN [err |-> acct.err, record |-> EmptyRecord]
        ELSE [err |-> "",
              record |-> [account |-> acct.account,
                          idToken |-> cachedIdToken,
                          accessToken |-> cachedAccessToken,
                          refreshToken |-> cachedRefreshToken,
                          appMetadata |-> cachedAppMetadata]]

\* generateCacheRecord: [err, record]; hai is this.homeAccountIdentifier,
\* now is TimeUtils.nowSeconds()
GenerateCacheRecord(hai, resp, idTokenObj, authority, libraryState, requestScopes, now) ==
    LET env == GenerateEnvironmentFromAuthority(authority)
        hasId == ~IsEmpty(resp.id_token)
        acct == IF hasId THEN GenerateAccountEntity(resp, idTokenObj, authority)
                ELSE [err |-> "", account |-> Null]
        cachedIdToken ==
            IF hasId
            THEN CreateIdTokenEntity(hai, env, resp.id_token, ClientId,
                                     idTokenObj.claims.tid)
            ELSE Null
        responseScopes == ResponseScopes(resp, requestScopes)
        timestamp == BaselineTimestamp(libraryState, now)
        tokenExpirationSeconds == timestamp + resp.expires_in
        extendedTokenExpirationSeconds ==
            tokenExpirationSeconds + resp.ext_expires_in
        cachedAccessToken ==
            IF ~IsEmpty(resp.access_token)
            THEN CreateAccessTokenEntity(
                    hai, env, resp.access_token, ClientId,
                    IF idTokenObj # Null THEN idTokenObj.claims.tid
                    ELSE authority.tenant,
                    PrintScopes(responseScopes), tokenExpirationSeconds,
                    extendedTokenExpirationSeconds, resp.token_type)
            ELSE Null
        cachedRefreshToken ==
            IF ~IsEmpty(resp.refresh_token)
            THEN CreateRefreshTokenEntity(hai, env, resp.refresh_token,
                                          ClientId, resp.foci)
            ELSE Null
        cachedAppMetadata ==
            IF ~IsEmpty(resp.foci)
            THEN CreateAppMetadataEntity(ClientId, env, resp.foci)
            ELSE Null
    IN  IF IsEmpty(env)
        THEN [err |-> "InvalidCacheEnvironmentError", record |-> EmptyRecord]
        ELSE IF acct.err # ""
        THEN [err |-> acct.err, record |-> EmptyRecord]
        ELSE [err |-> "",
              record |-> [account |-> acct.account,
                          idToken |-> cachedIdToken,
                          accessToken |-> cachedAccessToken,
                          refreshToken |-> cachedRefreshToken,
                          appMetadata |-> cachedAppMetadata]]

\* handleServerTokenResponse, lines 114-123: the home account id derived
\* from client_info; [err, hai, clientInfo]
DeriveHomeAccountId(hai, ci, resp) ==
    IF Truthy(resp.client_info)
    THEN LET d == BuildClientInfo(resp.client_info) IN
         IF ~d.ok
         THEN [err |-> "ClientInfoDecodingError", hai |-> hai, clientInfo |-> ci]
         ELSE [err |-> "",
               hai |-> IF ~IsEmpty(d.uid) /\ ~IsEmpty(d.utid)
                       THEN d.uid \o "." \o d.utid ELSE hai,
               clientInfo |-> [uid |-> d.uid, utid |-> d.utid]]
    ELSE [err |-> "", hai |-> "", clientInfo |-> ci]

\* Faulty variant of NonceMismatch: the test of line 131 for a supplied
\* nonce is missing
NonceMismatchUnguarded(resp, cachedNonce) ==
    /\ ~IsEmpty(resp.id_token)
    /\ AuthToken(resp.id_token).claims.nonce # cachedNonce

\* handleServerTokenResponse, lines 125-136: the nonce check fails
NonceMismatch(resp, cachedNonce) ==
    /\ ~IsEmpty(resp.id_token)
    /\ ~IsEmpty(cachedNonce)
    /\ AuthToken(resp.id_token).claims.nonce # cachedNonce

\* handleServerTokenResponse, lines 144-153: fall back to the sub claim
SubClaimFallback(hai, idTokenObj) ==
    IF ~Truthy(hai) /\ idTokenObj # Null /\ Truthy(idTokenObj.claims.sub)
    THEN idTokenObj.claims.sub
    ELSE hai

\* handleServerTokenResponse, lines 114-161: everything before the try
\* block, as one synchronous run.  The fields of the handler keep what was
\* assigned before an error was thrown.
BuildRecord(hai, ci, r) ==
    LET d == DeriveHomeAccountId(hai, ci, r.resp)
        idTokenObj == IF ~IsEmpty(r.resp.id_token)
                      THEN AuthToken(r.resp.id_token) ELSE Null
        hai2 == SubClaimFallback(d.hai, idTokenObj)
        st == IF ~IsEmpty(r.cachedState)
              THEN ParseRequestState(r.cachedState)
              ELSE [ok |-> TRUE, libraryState |-> Null, userRequestState |-> ""]
        requestStateObj ==
            IF ~IsEmpty(r.cachedState) /\ st.ok
            THEN [libraryState |-> st.libraryState,
                  userRequestState |-> st.userRequestState]
            ELSE Null
        g == GenerateCacheRecord(hai2, r.resp, idTokenObj, r.authority,
                                 IF requestStateObj # Null
                                 THEN requestStateObj.libraryState ELSE Null,
                                 r.requestScopes, r.now)
        fail(e, h, c) == [err |-> e, hai |-> h, clientInfo |-> c,
                          idTokenObj |-> Null, requestStateObj |-> Null,
                          cacheRecord |-> EmptyRecord]
    IN  IF d.err # "" THEN fail(d.err, d.hai, d.clientInfo)
        ELSE IF NonceMismatch(r.resp, r.cachedNonce)
        THEN fail("NonceMismatchError", d.hai, d.clientInfo)
        ELSE IF ~st.ok THEN fail("InvalidStateError", hai2, d.clientInfo)
        ELSE IF g.err # "" THEN fail(g.err, hai2, d.clientInfo)
        ELSE [err |-> "", hai |-> hai2, clientInfo |-> d.clientInfo,
              idTokenObj |-> idTokenObj, requestStateObj |-> requestStateObj,
              cacheRecord |-> g.record]

(***************************************************************************)
(* ResponseHandler.generateAuthenticationResult                            *)
(***************************************************************************)
\* PopTokenGenerator.signPopToken(secret, method, uri): a signature that
\* binds the secret to the resource request
SignPopToken(secret, method, uri) ==
    "pop(" \o secret \o "," \o method \o "," \o uri \o ")"

\* AccountEntity.getAccountInfo
GetAccountInfo(account) ==
    [homeAccountId |-> account.homeAccountId,
     environment |-> account.environment,
     tenantId |-> account.realm]

\* Faulty variant of NeedsPopSignature: every access token is signed
NeedsPopSignatureAlways(rec) == rec.accessToken # Null

\* the program point of generateAuthenticationResult that awaits the signer
NeedsPopSignature(rec) ==
    rec.accessToken # Null /\ rec.accessToken.tokenType = POP

\* generateAuthenticationResult, lines 315-350; accessToken is the value
\* lines 320-326 computed (the signature or the cached secret)
MakeAuthenticationResult(rec, idTokenObj, fromTokenCache, requestState, accessToken) ==
    [uniqueId |-> IF idTokenObj # Null
                  THEN IF Truthy(idTokenObj.claims.oid)
                       THEN idTokenObj.claims.oid ELSE idTokenObj.claims.sub
                  ELSE "",
     tenantId |-> IF idTokenObj # Null THEN idTokenObj.claims.tid ELSE "",
     scopes |-> IF rec.accessToken # Null
                THEN PrintScopes(ScopeSetOf(rec.accessToken.target)) ELSE <<>>,
     account |-> IF rec.account # Null THEN GetAccountInfo(rec.account) ELSE Null,
     idToken |-> IF idTokenObj # Null THEN idTokenObj.rawToken ELSE "",
     idTokenClaims |-> IF idTokenObj # Null THEN idTokenObj.claims ELSE Null,
     accessToken |-> accessToken,
     fromCache |-> fromTokenCache,
     expiresOn |-> IF rec.accessToken # Null
                   THEN rec.accessToken.expiresOn * 1000 ELSE -1,
     extExpiresOn |-> IF rec.accessToken # Null
                      THEN rec.accessToken.extendedExpiresOn * 1000 ELSE -1,
     familyId |-> IF rec.appMetadata # Null /\ Truthy(rec.appMetadata.familyId)
                  THEN rec.appMetadata.familyId ELSE "",
     tokenType |-> IF rec.accessToken # Null THEN rec.accessToken.tokenType ELSE "",
     state |-> IF requestState # Null THEN requestState.userRequestState ELSE ""]

(***************************************************************************)
(* Inputs of handleServerTokenResponse                                     *)
(***************************************************************************)
Environment == "login.example.com"

AuthorityOf(env, type, mode) ==
    [env |-> env, authorityType |-> type, protocolMode |-> mode, tenant |-> "t1"]

ResponseOf(ci, idt, tt) ==
    [client_info |-> ci, id_token |-> idt, access_token |-> "AT1",
     refresh_token |-> "RT1", foci |-> "", token_type |-> tt,
     scope |-> <<"user.read">>, expires_in |-> 3600, ext_expires_in |-> 7200]

RequestOf(resp, authority, nonce, state, refresh) ==
    [resp |-> resp, authority |-> authority,
     resourceRequestMethod |-> "GET", resourceRequestUri |-> "/me",
     cachedNonce |-> nonce, cachedState |-> state,
     requestScopes |-> <<"user.read">>,
     handlingRefreshTokenResponse |-> refresh, now |-> 500]

\* the calls the orchestration is explored with: a login, a refresh with
\* and without id_token, a proof-of-possession token, a client_info without
\* uid, and one request for each way of failing before the store is reached
OrchRequests ==
    {RequestOf(ResponseOf("ci.u1.t1", "idt.n1.s1", BEARER),
               AuthorityOf(Environment, "Default", "AAD"), "n1", "", refresh) :
        refresh \in BOOLEAN}
    \cup
    {RequestOf(ResponseOf("ci.u1.t1", "", BEARER),
               AuthorityOf(Environment, "Default", "AAD"), "n1", "", TRUE),
     RequestOf(ResponseOf("ci.u1.t1", "idt.n1.s1", POP),
               AuthorityOf(Environment, "Default", "AAD"), "n1", "", FALSE),
     RequestOf(ResponseOf("ci..t1", "idt.n1.s1", BEARER),
               AuthorityOf(Environment, "Default", "AAD"), "n1", "", TRUE),
     RequestOf(ResponseOf("ci.garbage", "idt.n1.s1", BEARER),
               AuthorityOf(Environment, "Default", "AAD"), "n1", "", FALSE),
     RequestOf(ResponseOf("ci.u1.t1", "idt.n1.s1", BEARER),
               AuthorityOf(Environment, "Default", "AAD"), "n2", "", FALSE),
     RequestOf(ResponseOf("ci.u1.t1", "idt.n1.s1", BEARER),
               AuthorityOf(Environment, "Default", "AAD"), "n1", "st.garbage", FALSE),
     RequestOf(ResponseOf("ci.u1.t1", "idt.n1.s1", BEARER),
               AuthorityOf("", "Default", "AAD"), "n1", "", FALSE),
     RequestOf(ResponseOf("", "idt.n1.s1", BEARER),
               AuthorityOf(Environment, "Default", "AAD"), "n1", "", TRUE)}

\* what the store holds after an earlier login of the identity
LoggedInStore ==
    SaveCacheRecord({},
        BuildRecord(Undefined, Null,
            RequestOf(ResponseOf("ci.u1.t1", "idt.n1.s1", BEARER),
                      AuthorityOf(Environment, "Default", "AAD"),
                      "n1", "", FALSE)).cacheRecord)

(***************************************************************************)
(* State                                                                   *)
(***************************************************************************)
VARIABLES
    store,                  \* this.cacheStorage: the entities in the cache
    homeAccountIdentifier,  \* this.homeAccountIdentifier
    clientInfo,             \* this.clientInfo
    persistencePlugin,      \* this.persistencePlugin is set
    serializableCache,      \* this.serializableCache is set
    running,                \* the call that holds the thread, or NoCall
    pc,                     \* per call: where it stands
    args,                   \* per call: the arguments read after the try
    cacheRecord,            \* per call: const cacheRecord
    idTokenObj,             \* per call: let idTokenObj
    requestStateObj,        \* per call: let requestStateObj
    cacheContext,           \* per call: let cacheContext is set
    pending,                \* per call: how the try block was left
    outcome,                \* per call: what the caller's promise settled to
    beforeCalls,            \* per call: invocations of beforeCacheAccess
    afterCalls,             \* per call: invocations of afterCacheAccess
    signCalls,              \* per call: invocations of signPopToken
    lookedUp,               \* per call: result of the guard's getAccount
    wrote,                  \* per call: the entities its saveCacheRecord wrote
    vInput,                 \* the arguments of the latest validator call
    vOutcome,               \* how the latest validator call ended
    mInput,                 \* the arguments of the latest mapping call
    mOutput,                \* what the latest mapping call produced
    mSignCalls,             \* invocations of signPopToken by mapping calls
    serverTelemetryManager, \* this.config.serverTelemetryManager is set
    telemetryCache,         \* the telemetry cache of the manager
    postPc,                 \* executePostToTokenEndpoint: where it stands
    postStatus,             \* the status of the response it received
    postOutcome,            \* what its promise settled to
    postsSent,              \* POSTs issued by the call in progress
    clearCalls              \* invocations of clearTelemetryCache

handlerVars == <<store, homeAccountIdentifier, clientInfo, persistencePlugin,
                 serializableCache>>
callVars == <<running, pc, args, cacheRecord, idTokenObj, requestStateObj,
              cacheContext, pending, outcome>>
historyVars == <<beforeCalls, afterCalls, signCalls, lookedUp, wrote>>
validatorVars == <<vInput, vOutcome>>
mapperVars == <<mInput, mOutput, mSignCalls>>
clientVars == <<serverTelemetryManager, telemetryCache, postPc, postStatus,
                postOutcome, postsSent, clearCalls>>
vars == <<handlerVars, callVars, historyVars, validatorVars, mapperVars, clientVars>>

NoArgs == [handlingRefreshTokenResponse |-> FALSE,
           resourceRequestMethod |-> "", resourceRequestUri |-> ""]
NoOutcome == [kind |-> "none", error |-> "", result |-> Null]
Normal == [kind |-> "normal", error |-> ""]
ReturnNull == [kind |-> "return", error |-> ""]
Throw(e) == [kind |-> "throw", error |-> e]
Rejected(e) == [kind |-> "error", error |-> e, result |-> Null]
ResolvedNull == [kind |-> "null", error |-> "", result |-> Null]
Resolved(r) == [kind |-> "result", error |-> "", result |-> r]

\* no call of handleServerTokenResponse has been made
InitCalls ==
    /\ running = NoCall
    /\ pc = [c \in Calls |-> "idle"]
    /\ args = [c \in Calls |-> NoArgs]
    /\ cacheRecord = [c \in Calls |-> EmptyRecord]
    /\ idTokenObj = [c \in Calls |-> Null]
    /\ requestStateObj = [c \in Calls |-> Null]
    /\ cacheContext = [c \in Calls |-> FALSE]
    /\ pending = [c \in Calls |-> Normal]
    /\ outcome = [c \in Calls |-> NoOutcome]
    /\ beforeCalls = [c \in Calls |-> 0]
    /\ afterCalls = [c \in Calls |-> 0]
    /\ signCalls = [c \in Calls |-> 0]
    /\ lookedUp = [c \in Calls |-> "none"]
    /\ wrote = [c \in Calls |-> {}]

\* constructor, lines 48-55; the store may already hold an earlier login
InitHandler ==
    /\ store \in {{}, LoggedInStore}
    /\ homeAccountIdentifier = Undefined
    /\ clientInfo = Null
    /\ persistencePlugin \in BOOLEAN
    /\ serializableCache \in BOOLEAN
    /\ InitCalls

(***************************************************************************)
(* Scheduling: the awaits of handleServerTokenResponse (lines 167, 186)    *)
(* and of generateAuthenticationResult (line 323).                         *)
(***************************************************************************)
\* Faulty variant of Suspends: the store is asynchronous and the call also
\* awaits between the lookup of line 176 and the write of line 182
SuspendsAtSave(p) == p \in {"awaitBefore", "awaitAfter", "awaitPop", "save"}

Suspends(p) == p \in {"awaitBefore", "awaitAfter", "awaitPop"}

\* call c may take its next step
Scheduled(c) ==
    IF Suspends(pc[c]) \/ pc[c] = "idle" THEN running = NoCall ELSE running = c

\* the calls are numbered in the order in which the caller makes them
IsNextCall(c) == \A d \in Calls : d < c => pc[d] # "idle"

Goto(c, p) ==
    /\ pc' = [pc EXCEPT ![c] = p]
    /\ running' = IF Suspends(p) \/ p = "done" THEN NoCall ELSE c

Settle(c, out) ==
    /\ outcome' = [outcome EXCEPT ![c] = out]
    /\ Goto(c, "done")

PersistenceEnabled == persistencePlugin /\ serializableCache

(***************************************************************************)
(* handleServerTokenResponse                                               *)
(***************************************************************************)
\* Faulty variant of StartThrows: beforeCacheAccess is invoked ahead of the
\* statements that validate the response
StartThrowsAfterHook(c, r) ==
    /\ pc[c] = "idle"
    /\ IsNextCall(c)
    /\ Scheduled(c)
    /\ LET b == BuildRecord(homeAccountIdentifier, clientInfo, r) IN
        /\ b.err # ""
        /\ homeAccountIdentifier' = b.hai
        /\ clientInfo' = b.clientInfo
        /\ Settle(c, Rejected(b.err))
    /\ beforeCalls' = [beforeCalls EXCEPT ![c] =
            beforeCalls[c] + IF PersistenceEnabled THEN 1 ELSE 0]
    /\ UNCHANGED <<store, persistencePlugin, serializableCache, args,
                   cacheRecord, idTokenObj, requestStateObj, cacheContext,
                   pending, afterCalls, signCalls, lookedUp, wrote>>
    /\ UNCHANGED <<validatorVars, mapperVars, clientVars>>

\* lines 114-161 throw: the call fails before the try block is entered
StartThrows(c, r) ==
    /\ pc[c] = "idle"
    /\ IsNextCall(c)
    /\ Scheduled(c)
    /\ LET b == BuildRecord(homeAccountIdentifier, clientInfo, r) IN
        /\ b.err # ""
        /\ homeAccountIdentifier' = b.hai
        /\ clientInfo' = b.clientInfo
        /\ Settle(c, Rejected(b.err))
    /\ UNCHANGED <<store, persistencePlugin, serializableCache, args,
                   cacheRecord, idTokenObj, requestStateObj, cacheContext,
                   pending, historyVars>>
    /\ UNCHANGED <<validatorVars, mapperVars, clientVars>>

\* Faulty variant of Start: the record is written to the store as soon as
\* it is built, ahead of beforeCacheAccess
StartSavesFirst(c, r) ==
    /\ pc[c] = "idle"
    /\ IsNextCall(c)
    /\ Scheduled(c)
    /\ LET b == BuildRecord(homeAccountIdentifier, clientInfo, r) IN
        /\ b.err = ""
        /\ homeAccountIdentifier' = b.hai
        /\ clientInfo' = b.clientInfo
        /\ args' = [args EXCEPT ![c] =
                [handlingRefreshTokenResponse |-> r.handlingRefreshTokenResponse,
                 resourceRequestMethod |-> r.resourceRequestMethod,
                 resourceRequestUri |-> r.resourceRequestUri]]
        /\ cacheRecord' = [cacheRecord EXCEPT ![c] = b.cacheRecord]
        /\ store' = SaveCacheRecord(store, b.cacheRecord)
        /\ wrote' = [wrote EXCEPT ![c] = RecordEntities(b.cacheRecord)]
        /\ idTokenObj' = [idTokenObj EXCEPT ![c] = b.idTokenObj]
        /\ requestStateObj' = [requestStateObj EXCEPT ![c] = b.requestStateObj]
    /\ IF PersistenceEnabled
       THEN /\ cacheContext' = [cacheContext EXCEPT ![c] = TRUE]
            /\ beforeCalls' = [beforeCalls EXCEPT ![c] = beforeCalls[c] + 1]
            /\ Goto(c, "awaitBefore")
       ELSE /\ Goto(c, "guard")
            /\ UNCHANGED <<cacheContext, beforeCalls>>
    /\ UNCHANGED <<persistencePlugin, serializableCache, pending, outcome,
                   afterCalls, signCalls, lookedUp>>
    /\ UNCHANGED <<validatorVars, mapperVars, clientVars>>

\* lines 114-168: from the call to the await of beforeCacheAccess, or to
\* line 174 when persistence is off
Start(c, r) ==
    /\ pc[c] = "idle"
    /\ IsNextCall(c)
    /\ Scheduled(c)
    /\ LET b == BuildRecord(homeAccountIdentifier, clientInfo, r) IN
        /\ b.err = ""
        /\ homeAccountIdentifier' = b.hai
        /\ clientInfo' = b.clientInfo
        /\ args' = [args EXCEPT ![c] =
                [handlingRefreshTokenResponse |-> r.handlingRefreshTokenResponse,
                 resourceRequestMethod |-> r.resourceRequestMethod,
                 resourceRequestUri |-> r.resourceRequestUri]]
        /\ cacheRecord' = [cacheRecord EXCEPT ![c] = b.cacheRecord]
        /\ idTokenObj' = [idTokenObj EXCEPT ![c] = b.idTokenObj]
        /\ requestStateObj' = [requestStateObj EXCEPT ![c] = b.requestStateObj]
    /\ IF PersistenceEnabled
       THEN /\ cacheContext' = [cacheContext EXCEPT ![c] = TRUE]
            /\ beforeCalls' = [beforeCalls EXCEPT ![c] = beforeCalls[c] + 1]
            /\ Goto(c, "awaitBefore")
       ELSE /\ Goto(c, "guard")
            /\ UNCHANGED <<cacheContext, beforeCalls>>
    /\ UNCHANGED <<store, persistencePlugin, serializableCache, pending, outcome,
                   afterCalls, signCalls, lookedUp, wrote>>
    /\ UNCHANGED <<validatorVars, mapperVars, clientVars>>

\* line 167: beforeCacheAccess resolved
BeforeCacheAccessReturns(c) ==
    /\ pc[c] = "awaitBefore"
    /\ Scheduled(c)
    /\ Goto(c, "guard")
    /\ UNCHANGED <<handlerVars, args, cacheRecord, idTokenObj, requestStateObj,
                   cacheContext, pending, outcome, historyVars>>
    /\ UNCHANGED <<validatorVars, mapperVars, clientVars>>

\* line 167: beforeCacheAccess rejected; control goes to the finally block
BeforeCacheAccessThrows(c) ==
    /\ pc[c] = "awaitBefore"
    /\ Scheduled(c)
    /\ pending' = [pending EXCEPT ![c] = Throw("BeforeCacheAccessError")]
    /\ Goto(c, "finally")
    /\ UNCHANGED <<handlerVars, args, cacheRecord, idTokenObj, requestStateObj,
                   cacheContext, outcome, historyVars>>
    /\ UNCHANGED <<validatorVars, mapperVars, clientVars>>

\* the guard of line 174
GuardApplies(c) ==
    args[c].handlingRefreshTokenResponse /\ cacheRecord[c].account # Null

\* Faulty variant of GuardTarget: the "return null" of line 179 is missing
GuardTargetNoReturn(account) == "save"

\* lines 177-182: where the call goes with the account the lookup returned
GuardTarget(account) == IF account = Null THEN "finally" ELSE "save"

\* lines 174-181: the refresh guard and its lookup
Guard(c) ==
    /\ pc[c] = "guard"
    /\ Scheduled(c)
    /\ IF GuardApplies(c)
       THEN LET account == GetAccount(store,
                               GenerateAccountKey(cacheRecord[c].account)) IN
            /\ lookedUp' = [lookedUp EXCEPT ![c] =
                    IF account = Null THEN "absent" ELSE "present"]
            /\ pending' = [pending EXCEPT ![c] =
                    IF GuardTarget(account) = "finally" THEN ReturnNull ELSE Normal]
            /\ Goto(c, GuardTarget(account))
       ELSE /\ Goto(c, "save")
            /\ UNCHANGED <<pending, lookedUp>>
    /\ UNCHANGED <<handlerVars, args, cacheRecord, idTokenObj, requestStateObj,
                   cacheContext, outcome, beforeCalls, afterCalls, signCalls,
                   wrote>>
    /\ UNCHANGED <<validatorVars, mapperVars, clientVars>>

\* line 176: getAccount throws
GuardThrows(c) ==
    /\ pc[c] = "guard"
    /\ Scheduled(c)
    /\ GuardApplies(c)
    /\ lookedUp' = [lookedUp EXCEPT ![c] = "failed"]
    /\ pending' = [pending EXCEPT ![c] = Throw("StoreReadError")]
    /\ Goto(c, "finally")
    /\ UNCHANGED <<handlerVars, args, cacheRecord, idTokenObj, requestStateObj,
                   cacheContext, outcome, beforeCalls, afterCalls, signCalls,
                   wrote>>
    /\ UNCHANGED <<validatorVars, mapperVars, clientVars>>

\* Faulty variant of Save: the credentials are written and the account
\* entity is left out
SaveCredentialsOnly(c) ==
    /\ pc[c] = "save"
    /\ Scheduled(c)
    /\ store' = SaveCacheRecord(store, [cacheRecord[c] EXCEPT !.account = Null])
    /\ wrote' = [wrote EXCEPT ![c] =
            RecordEntities([cacheRecord[c] EXCEPT !.account = Null])]
    /\ pending' = [pending EXCEPT ![c] = Normal]
    /\ Goto(c, "finally")
    /\ UNCHANGED <<homeAccountIdentifier, clientInfo, persistencePlugin,
                   serializableCache, args, cacheRecord, idTokenObj,
                   requestStateObj, cacheContext, outcome, beforeCalls,
                   afterCalls, signCalls, lookedUp>>
    /\ UNCHANGED <<validatorVars, mapperVars, clientVars>>

\* line 182: saveCacheRecord
Save(c) ==
    /\ pc[c] = "save"
    /\ Scheduled(c)
    /\ store' = SaveCacheRecord(store, cacheRecord[c])
    /\ wrote' = [wrote EXCEPT ![c] = RecordEntities(cacheRecord[c])]
    /\ pending' = [pending EXCEPT ![c] = Normal]
    /\ Goto(c, "finally")
    /\ UNCHANGED <<homeAccountIdentifier, clientInfo, persistencePlugin,
                   serializableCache, args, cacheRecord, idTokenObj,
                   requestStateObj, cacheContext, outcome, beforeCalls,
                   afterCalls, signCalls, lookedUp>>
    /\ UNCHANGED <<validatorVars, mapperVars, clientVars>>

\* line 182: saveCacheRecord throws
SaveThrows(c) ==
    /\ pc[c] = "save"
    /\ Scheduled(c)
    /\ pending' = [pending EXCEPT ![c] = Throw("StoreWriteError")]
    /\ Goto(c, "finally")
    /\ UNCHANGED <<handlerVars, args, cacheRecord, idTokenObj, requestStateObj,
                   cacheContext, outcome, beforeCalls, afterCalls, signCalls,
                   lookedUp, wrote>>
    /\ UNCHANGED <<validatorVars, mapperVars, clientVars>>

\* Faulty variant of LeaveTry: an error of the try block is swallowed and the
\* call goes on to assemble a result
LeaveTrySwallows(c) ==
    CASE pending[c].kind = "return" -> Settle(c, ResolvedNull)
      [] OTHER -> Goto(c, "assemble") /\ UNCHANGED outcome

\* what the try statement does once its finally block has completed
\* normally: return null, rethrow, or go on to line 189
LeaveTry(c) ==
    CASE pending[c].kind = "return" -> Settle(c, ResolvedNull)
      [] pending[c].kind = "throw" -> Settle(c, Rejected(pending[c].error))
      [] OTHER -> Goto(c, "assemble") /\ UNCHANGED outcome

\* Faulty variant of AfterHookDue: afterCacheAccess sits at the end of the
\* try block instead of in a finally block
AfterHookDueOnSuccess(c) ==
    PersistenceEnabled /\ cacheContext[c] /\ pending[c].kind = "normal"

\* line 184: the finally block calls afterCacheAccess
AfterHookDue(c) == PersistenceEnabled /\ cacheContext[c]

\* lines 183-188: the finally block up to its await
Finally(c) ==
    /\ pc[c] = "finally"
    /\ Scheduled(c)
    /\ IF AfterHookDue(c)
       THEN /\ afterCalls' = [afterCalls EXCEPT ![c] = afterCalls[c] + 1]
            /\ Goto(c, "awaitAfter")
            /\ UNCHANGED outcome
       ELSE /\ LeaveTry(c)
            /\ UNCHANGED afterCalls
    /\ UNCHANGED <<handlerVars, args, cacheRecord, idTokenObj, requestStateObj,
                   cacheContext, pending, beforeCalls, signCalls, lookedUp,
                   wrote>>
    /\ UNCHANGED <<validatorVars, mapperVars, clientVars>>

\* line 186: afterCacheAccess resolved
AfterCacheAccessReturns(c) ==
    /\ pc[c] = "awaitAfter"
    /\ Scheduled(c)
    /\ LeaveTry(c)
    /\ UNCHANGED <<handlerVars, args, cacheRecord, idTokenObj, requestStateObj,
                   cacheContext, pending, historyVars>>
    /\ UNCHANGED <<validatorVars, mapperVars, clientVars>>

\* line 186: afterCacheAccess rejected; its error replaces the completion
\* of the try block
AfterCacheAccessThrows(c) ==
    /\ pc[c] = "awaitAfter"
    /\ Scheduled(c)
    /\ Settle(c, Rejected("AfterCacheAccessError"))
    /\ UNCHANGED <<handlerVars, args, cacheRecord, idTokenObj, requestStateObj,
                   cacheContext, pending, historyVars>>
    /\ UNCHANGED <<validatorVars, mapperVars, clientVars>>

\* line 189 and generateAuthenticationResult up to its await or its return
Assemble(c) ==
    /\ pc[c] = "assemble"
    /\ Scheduled(c)
    /\ IF NeedsPopSignature(cacheRecord[c])
       THEN /\ signCalls' = [signCalls EXCEPT ![c] = signCalls[c] + 1]
            /\ Goto(c, "awaitPop")
            /\ UNCHANGED outcome
       ELSE /\ Settle(c, Resolved(MakeAuthenticationResult(
                    cacheRecord[c], idTokenObj[c], FALSE, requestStateObj[c],
                    IF cacheRecord[c].accessToken # Null
                    THEN cacheRecord[c].accessToken.secret ELSE "")))
            /\ UNCHANGED signCalls
    /\ UNCHANGED <<handlerVars, args, cacheRecord, idTokenObj, requestStateObj,
                   cacheContext, pending, beforeCalls, afterCalls, lookedUp,
                   wrote>>
    /\ UNCHANGED <<validatorVars, mapperVars, clientVars>>

\* line 323: signPopToken resolved
SignPopTokenReturns(c) ==
    /\ pc[c] = "awaitPop"
    /\ Scheduled(c)
    /\ Settle(c, Resolved(MakeAuthenticationResult(
            cacheRecord[c], idTokenObj[c], FALSE, requestStateObj[c],
            SignPopToken(cacheRecord[c].accessToken.secret,
                         args[c].resourceRequestMethod,
                         args[c].resourceRequestUri))))
    /\ UNCHANGED <<handlerVars, args, cacheRecord, idTokenObj, requestStateObj,
                   cacheContext, pending, historyVars>>
    /\ UNCHANGED <<validatorVars, mapperVars, clientVars>>

\* Faulty variant of SignPopTokenThrows: a failed signature takes the record
\* out of the store again
SignPopTokenThrowsRollsBack(c) ==
    /\ pc[c] = "awaitPop"
    /\ Scheduled(c)
    /\ Settle(c, Rejected("PopSignError"))
    /\ store' = store \ wrote[c]
    /\ UNCHANGED <<homeAccountIdentifier, clientInfo, persistencePlugin,
                   serializableCache, args, cacheRecord, idTokenObj,
                   requestStateObj, cacheContext, pending, historyVars>>
    /\ UNCHANGED <<validatorVars, mapperVars, clientVars>>

\* line 323: signPopToken rejected
SignPopTokenThrows(c) ==
    /\ pc[c] = "awaitPop"
    /\ Scheduled(c)
    /\ Settle(c, Rejected("PopSignError"))
    /\ UNCHANGED <<handlerVars, args, cacheRecord, idTokenObj, requestStateObj,
                   cacheContext, pending, historyVars>>
    /\ UNCHANGED <<validatorVars, mapperVars, clientVars>>

\* another caller of the same cache removes an account (the removeAccount
\* of the comment at lines 169-173) while no call holds the thread
RemoveAccount ==
    /\ running = NoCall
    /\ \E a \in {e \in store : e.credentialType = "Account"} :
            store' = RemoveAccountFromStore(store, a)
    /\ UNCHANGED <<homeAccountIdentifier, clientInfo, persistencePlugin,
                   serializableCache, callVars, beforeCalls, afterCalls,
                   signCalls, lookedUp, wrote>>
    /\ UNCHANGED <<validatorVars, mapperVars, clientVars>>

Next ==
    \/ \E c \in Calls, r \in OrchRequests : StartThrows(c, r)
    \/ \E c \in Calls, r \in OrchRequests : Start(c, r)
    \/ \E c \in Calls : BeforeCacheAccessReturns(c)
    \/ \E c \in Calls : BeforeCacheAccessThrows(c)
    \/ \E c \in Calls : Guard(c)
    \/ \E c \in Calls : GuardThrows(c)
    \/ \E c \in Calls : Save(c)
    \/ \E c \in Calls : SaveThrows(c)
    \/ \E c \in Calls : Finally(c)
    \/ \E c \in Calls : AfterCacheAccessReturns(c)
    \/ \E c \in Calls : AfterCacheAccessThrows(c)
    \/ \E c \in Calls : Assemble(c)
    \/ \E c \in Calls : SignPopTokenReturns(c)
    \/ \E c \in Calls : SignPopTokenThrows(c)
    \/ RemoveAccount

(***************************************************************************)
(* ResponseHandler: the validators.  A state string is a sequence of       *)
(* characters; an error description is a sequence of words.                *)
(***************************************************************************)
MaxStateLen == 3

Chars == {"a", "%", "6", "1"}
HexDigits == {"6", "1"}

RECURSIVE StringsUpTo(_)
StringsUpTo(n) ==
    IF n = 0 THEN {<<>>}
    ELSE LET shorter == StringsUpTo(n - 1) IN
         shorter \cup {Append(w, ch) : w \in shorter, ch \in Chars}

\* the character an escape sequence %hl stands for
Unescape(h, l) == IF h = "6" /\ l = "1" THEN "a" ELSE "x" \o h \o l

\* decodeURIComponent: [ok, value]; a "%" that is not followed by two
\* hexadecimal digits is a URIError
RECURSIVE DecodeURIComponent(_)
DecodeURIComponent(w) ==
    IF w = <<>> THEN [ok |-> TRUE, value |-> <<>>]
    ELSE IF Head(w) # "%"
    THEN LET rest == DecodeURIComponent(Tail(w)) IN
         [ok |-> rest.ok, value |-> <<Head(w)>> \o rest.value]
    ELSE IF Len(w) >= 3 /\ w[2] \in HexDigits /\ w[3] \in HexDigits
    THEN LET rest == DecodeURIComponent(SubSeq(w, 4, Len(w))) IN
         [ok |-> rest.ok, value |-> <<Unescape(w[2], w[3])>> \o rest.value]
    ELSE [ok |-> FALSE, value |-> <<>>]

\* InteractionRequiredAuthErrorMessage / InteractionRequiredAuthSubErrorMessage
InteractionRequiredCodes ==
    {"interaction_required", "consent_required", "login_required"}
InteractionRequiredSubErrors ==
    {"message_only", "additional_action", "basic_action",
     "user_password_expired", "consent_required"}

\* InteractionRequiredAuthError.isInteractionRequiredError
IsInteractionRequiredError(error, description, suberror) ==
    \/ error \in InteractionRequiredCodes
    \/ \E i \in DOMAIN description : description[i] \in InteractionRequiredCodes
    \/ suberror \in InteractionRequiredSubErrors

\* Faulty variant of ValidateTokenResponse: suberror is left out of the
\* test of line 88
ValidateTokenResponseNoSuberror(resp) ==
    IF Truthy(resp.error) \/ resp.error_description # <<>>
    THEN IF IsInteractionRequiredError(resp.error, resp.error_description,
                                       resp.suberror)
         THEN "InteractionRequiredAuthError"
         ELSE "ServerError"
    ELSE "ok"

\* validateTokenResponse, lines 86-96: the error it throws, or "ok"
ValidateTokenResponse(resp) ==
    IF Truthy(resp.error) \/ resp.error_description # <<>> \/ Truthy(resp.suberror)
    THEN IF IsInteractionRequiredError(resp.error, resp.error_description,
                                       resp.suberror)
         THEN "InteractionRequiredAuthError"
         ELSE "ServerError"
    ELSE "ok"

\* lines 77-79: client_info is decoded to fail fast
ClientInfoCheck(resp) ==
    IF Truthy(resp.client_info) /\ ~BuildClientInfo(resp.client_info).ok
    THEN "ClientInfoDecodingError"
    ELSE "ok"

\* Faulty variant of ValidateServerAuthorizationCodeResponse: the error
\* fields are looked at before the state
ValidateCodeResponseErrorsFirst(resp, cachedState) ==
    LET a == DecodeURIComponent(resp.state)
        b == DecodeURIComponent(cachedState)
    IN  IF ValidateTokenResponse(resp) # "ok" THEN ValidateTokenResponse(resp)
        ELSE IF ~a.ok \/ ~b.ok THEN "URIError"
        ELSE IF a.value # b.value THEN "StateMismatchError"
        ELSE ClientInfoCheck(resp)

\* validateServerAuthorizationCodeResponse, lines 63-80: the error it
\* throws, or "ok"
ValidateServerAuthorizationCodeResponse(resp, cachedState) ==
    LET a == DecodeURIComponent(resp.state)
        b == DecodeURIComponent(cachedState)
    IN  IF ~a.ok \/ ~b.ok THEN "URIError"
        ELSE IF a.value # b.value THEN "StateMismatchError"
        ELSE IF Truthy(resp.error) \/ resp.error_description # <<>>
                \/ Truthy(resp.suberror)
        THEN IF IsInteractionRequiredError(resp.error, resp.error_description,
                                           resp.suberror)
             THEN "InteractionRequiredAuthError"
             ELSE "ServerError"
        ELSE ClientInfoCheck(resp)

\* the responses the validators are explored with
ErrorCodes == {"", "interaction_required", "invalid_grant"}
ErrorDescriptions ==
    {<<>>, <<"AADSTS50076", "login_required">>, <<"AADSTS70000", "expired">>}
SubErrors == {"", "message_only", "bad_token"}
CachedStates == {<<>>, <<"a">>, <<"a", "a">>, <<"%", "6", "1">>, <<"%", "a">>}

ResponseHashes ==
    [state : StringsUpTo(MaxStateLen), error : ErrorCodes,
     error_description : ErrorDescriptions, suberror : SubErrors,
     client_info : {"", "ci.u1.t1", "ci.garbage"}]

NoInput ==
    [validator |-> "none", resp |-> [state |-> <<>>, error |-> "",
                                     error_description |-> <<>>, suberror |-> "",
                                     client_info |-> ""],
     cachedState |-> <<>>]

InitValidator ==
    /\ vInput = NoInput
    /\ vOutcome = "none"

\* Faulty variant of ValidateCode: the decoded client_info of line 78 is
\* kept in the handler, as lines 116-118 do
ValidateCodeKeepsClientInfo ==
    /\ vInput.validator = "code"
    /\ vOutcome' = ValidateServerAuthorizationCodeResponse(vInput.resp,
                                                           vInput.cachedState)
    /\ homeAccountIdentifier' =
            IF vOutcome' = "ok" /\ Truthy(vInput.resp.client_info)
            THEN LET d == BuildClientInfo(vInput.resp.client_info) IN
                 d.uid \o "." \o d.utid
            ELSE homeAccountIdentifier
    /\ UNCHANGED <<store, clientInfo, persistencePlugin, serializableCache,
                   callVars, historyVars, mapperVars, clientVars,
                   vInput>>

\* a call of validateServerAuthorizationCodeResponse with the arguments
\* in vInput
ValidateCode ==
    /\ vInput.validator = "code"
    /\ vOutcome' = ValidateServerAuthorizationCodeResponse(vInput.resp,
                                                           vInput.cachedState)
    /\ UNCHANGED <<handlerVars, callVars, historyVars, mapperVars, clientVars,
                   vInput>>

\* a call of validateTokenResponse with the arguments in vInput
ValidateToken ==
    /\ vInput.validator = "token"
    /\ vOutcome' = ValidateTokenResponse(vInput.resp)
    /\ UNCHANGED <<handlerVars, callVars, historyVars, mapperVars, clientVars,
                   vInput>>

NextValidate ==
    \/ ValidateCode
    \/ ValidateToken

(***************************************************************************)
(* ResponseHandler: the mapping functions over a wide range of arguments.  *)
(* mInput says which function is called and with what; the handler the     *)
(* call is made on has no persistence plugin.                              *)
(***************************************************************************)
MaxExpiresIn == 2
MaxResults == 2

\* the authorities: Azure AD, a generic OIDC provider, ADFS, and one whose
\* environment cannot be resolved
Authorities ==
    {AuthorityOf(Environment, type, mode) :
        type \in {"Default", "Adfs"}, mode \in {"AAD", "OIDC"}}
    \cup {AuthorityOf("", "Default", "AAD")}

\* token responses for generateCacheRecord and generateAuthenticationResult
MapResponses ==
    [client_info : {"", "ci.u1.t1"}, id_token : {"", "idt.n1.s1"},
     access_token : {"", "AT1"}, refresh_token : {"", "RT1"},
     foci : {"", "1"}, token_type : {BEARER, POP},
     scope : {<<>>, <<"user.read", "mail.read", "user.read">>},
     expires_in : 0..MaxExpiresIn, ext_expires_in : 0..MaxExpiresIn]

\* the request states parseRequestState returns, or none
RequestStates ==
    {Null,
     [libraryState |-> [ts |-> 100], userRequestState |-> "userA"],
     [libraryState |-> Null, userRequestState |-> "userB"]}

\* arguments of generateCacheRecord, and of the generateAuthenticationResult
\* that is called on the record it returns
RecordInputs ==
    [fn : {"generateCacheRecord"}, resp : MapResponses,
     authority : Authorities, requestState : RequestStates,
     requestScopes : {<<"files.read">>}, now : {500},
     resourceRequestMethod : {"GET", "POST"}, resourceRequestUri : {"/me"}]

\* arguments of generateAccountEntity
AccountInputs ==
    [fn : {"generateAccountEntity"},
     resp : [client_info : {"", Undefined, "ci.u1.t1", "ci.u2.t1"}],
     id_token : {"idt.n1.s1", "idt.n1.nosub"},
     authority : Authorities]

\* arguments of handleServerTokenResponse: bearer token responses
HandleRequests ==
    {[fn |-> "handleServerTokenResponse",
      r |-> RequestOf(ResponseOf(ci, idt, BEARER),
                      AuthorityOf(Environment, type, mode),
                      nonce, state, refresh)] :
        ci \in {"", "ci.u1.t1", "ci.u2.t1", "ci..t1", "ci.garbage"},
        idt \in {"", "idt.n1.s1", "idt.n1.nosub"},
        type \in {"Default", "Adfs"}, mode \in {"AAD", "OIDC"},
        nonce \in {"", Undefined, "n1", "n2"},
        state \in {"", "st.100.userA", "st.garbage"},
        refresh \in BOOLEAN}

NoMapInput == [fn |-> "none"]
NoMapOutput ==
    [kind |-> "none", err |-> "", record |-> EmptyRecord, results |-> 0,
     result |-> Null]

InitMapper ==
    /\ mInput = NoMapInput
    /\ mOutput = NoMapOutput
    /\ mSignCalls = 0

\* the idTokenObj handleServerTokenResponse passes along with a response
\* (lines 125-128)
IdTokenObjOf(resp) ==
    IF ~IsEmpty(resp.id_token) THEN AuthToken(resp.id_token) ELSE Null

\* a call of generateAccountEntity with the arguments in mInput
MapAccount ==
    /\ mInput.fn = "generateAccountEntity"
    /\ mOutput.kind = "none"
    /\ LET g == GenerateAccountEntity(mInput.resp, AuthToken(mInput.id_token),
                                      mInput.authority) IN
        mOutput' = [NoMapOutput EXCEPT
                        !.kind = IF g.err = "" THEN "account" ELSE "error",
                        !.err = g.err,
                        !.record = [EmptyRecord EXCEPT !.account = g.account]]
    /\ UNCHANGED <<handlerVars, callVars, historyVars, validatorVars,
                   clientVars, mInput, mSignCalls>>

\* a call of generateCacheRecord with the arguments in mInput
MapRecord ==
    /\ mInput.fn = "generateCacheRecord"
    /\ mOutput.kind = "none"
    /\ LET g == GenerateCacheRecord(
                    homeAccountIdentifier, mInput.resp,
                    IdTokenObjOf(mInput.resp), mInput.authority,
                    IF mInput.requestState # Null
                    THEN mInput.requestState.libraryState ELSE Null,
                    mInput.requestScopes, mInput.now) IN
        mOutput' = [NoMapOutput EXCEPT
                        !.kind = IF g.err = "" THEN "record" ELSE "error",
                        !.err = g.err,
                        !.record = g.record]
    /\ UNCHANGED <<handlerVars, callVars, historyVars, validatorVars,
                   clientVars, mInput, mSignCalls>>

\* generateAuthenticationResult, lines 336-350, for the record in mOutput
MapResultOf(accessToken) ==
    [mOutput EXCEPT
        !.kind = "result",
        !.results = @ + 1,
        !.result = MakeAuthenticationResult(
                        mOutput.record, IdTokenObjOf(mInput.resp),
                        mOutput.results > 0, mInput.requestState, accessToken)]

\* a call of generateAuthenticationResult on the record generateCacheRecord
\* returned, up to its await or its return; later calls are made with the
\* record as a cached one
MapResult ==
    /\ mInput.fn = "generateCacheRecord"
    /\ mOutput.kind \in {"record", "result"}
    /\ mOutput.results < MaxResults
    /\ IF NeedsPopSignature(mOutput.record)
       THEN /\ mSignCalls' = mSignCalls + 1
            /\ mOutput' = [mOutput EXCEPT !.kind = "signing"]
       ELSE /\ mOutput' = MapResultOf(
                    IF mOutput.record.accessToken # Null
                    THEN mOutput.record.accessToken.secret ELSE "")
            /\ UNCHANGED mSignCalls
    /\ UNCHANGED <<handlerVars, callVars, historyVars, validatorVars,
                   clientVars, mInput>>

\* line 323: signPopToken resolved
MapResultSigned ==
    /\ mInput.fn = "generateCacheRecord"
    /\ mOutput.kind = "signing"
    /\ mOutput' = MapResultOf(
            SignPopToken(mOutput.record.accessToken.secret,
                         mInput.resourceRequestMethod,
                         mInput.resourceRequestUri))
    /\ UNCHANGED <<handlerVars, callVars, historyVars, validatorVars,
                   clientVars, mInput, mSignCalls>>

\* line 323: signPopToken rejected
MapResultSignFails ==
    /\ mInput.fn = "generateCacheRecord"
    /\ mOutput.kind = "signing"
    /\ mOutput' = [mOutput EXCEPT !.kind = "error", !.err = "PopSignError"]
    /\ UNCHANGED <<handlerVars, callVars, historyVars, validatorVars,
                   clientVars, mInput, mSignCalls>>

\* a whole call of handleServerTokenResponse with the arguments in mInput.
\* Without a persistence plugin and with a bearer token no await is reached
\* before the return, so the call is one uninterrupted run of lines 114-189.
HandleResponse ==
    /\ mInput.fn = "handleServerTokenResponse"
    /\ mOutput.kind = "none"
    /\ ~PersistenceEnabled
    /\ LET r == mInput.r
           b == BuildRecord(homeAccountIdentifier, clientInfo, r)
           guarded == /\ b.err = ""
                      /\ r.handlingRefreshTokenResponse
                      /\ b.cacheRecord.account # Null
           absent == /\ guarded
                     /\ GetAccount(store,
                            GenerateAccountKey(b.cacheRecord.account)) = Null
       IN  /\ homeAccountIdentifier' = b.hai
           /\ clientInfo' = b.clientInfo
           /\ store' = IF b.err # "" \/ absent THEN store
                       ELSE SaveCacheRecord(store, b.cacheRecord)
           /\ mOutput' =
                IF b.err # ""
                THEN [NoMapOutput EXCEPT !.kind = "error", !.err = b.err]
                ELSE IF absent
                THEN [NoMapOutput EXCEPT !.kind = "null",
                                         !.record = b.cacheRecord]
                ELSE [NoMapOutput EXCEPT
                        !.kind = "result",
                        !.record = b.cacheRecord,
                        !.results = 1,
                        !.result = MakeAuthenticationResult(
                            b.cacheRecord, b.idTokenObj, FALSE,
                            b.requestStateObj,
                            IF b.cacheRecord.accessToken # Null
                            THEN b.cacheRecord.accessToken.secret ELSE "")]
    /\ UNCHANGED <<persistencePlugin, serializableCache, callVars, historyVars,
                   validatorVars, clientVars, mInput, mSignCalls>>

NextMap ==
    \/ MapAccount
    \/ MapRecord
    \/ MapResult
    \/ MapResultSigned
    \/ MapResultSignFails
    \/ HandleResponse

(***************************************************************************)
(* BaseClient.executePostToTokenEndpoint and the telemetry cache of        *)
(* ServerTelemetryManager.                                                 *)
(***************************************************************************)
MaxFailedRequests == 2

Statuses == {200, 400, 429, 499, 500, 503}

\* ServerTelemetryManager: the cache before anything was recorded
EmptyTelemetry == [failedRequests |-> <<>>, cacheHits |-> 0]

\* Faulty variant of ClearsTelemetry: the test for 429 is missing
ClearsTelemetryBelow500(manager, status) == manager /\ status < 500

\* line 132: the condition under which the telemetry cache is cleared
ClearsTelemetry(manager, status) ==
    manager /\ status < 500 /\ status # 429

NoPostOutcome == [kind |-> "none", status |-> 0]

InitClient ==
    /\ serverTelemetryManager = FALSE
    /\ telemetryCache = EmptyTelemetry
    /\ postPc = "idle"
    /\ postStatus = 0
    /\ postOutcome = NoPostOutcome
    /\ postsSent = 0
    /\ clearCalls = 0

\* ServerTelemetryManager.cacheFailedRequest: a failed request is recorded
\* for the header of the next request
CacheFailedRequest(code) ==
    /\ serverTelemetryManager
    /\ Len(telemetryCache.failedRequests) < MaxFailedRequests
    /\ telemetryCache' =
            [telemetryCache EXCEPT !.failedRequests = Append(@, code)]
    /\ UNCHANGED <<handlerVars, callVars, historyVars, validatorVars,
                   mapperVars,
                   serverTelemetryManager, postPc, postStatus, postOutcome,
                   postsSent, clearCalls>>

\* lines 125-130: the call issues the POST and awaits the response
PostStart ==
    /\ postPc \in {"idle", "done"}
    /\ postPc' = "awaitPost"
    /\ postsSent' = 1
    /\ postStatus' = 0
    /\ postOutcome' = NoPostOutcome
    /\ clearCalls' = 0
    /\ UNCHANGED <<handlerVars, callVars, historyVars, validatorVars,
                   mapperVars,
                   serverTelemetryManager, telemetryCache>>

\* lines 132-137: the response arrived
PostResponds(status) ==
    /\ postPc = "awaitPost"
    /\ postPc' = "done"
    /\ postStatus' = status
    /\ IF ClearsTelemetry(serverTelemetryManager, status)
       THEN /\ telemetryCache' = EmptyTelemetry
            /\ clearCalls' = clearCalls + 1
       ELSE UNCHANGED <<telemetryCache, clearCalls>>
    /\ postOutcome' = [kind |-> "response", status |-> status]
    /\ UNCHANGED <<handlerVars, callVars, historyVars, validatorVars,
                   mapperVars,
                   serverTelemetryManager, postsSent>>

\* a variant in which a rejected POST is issued once more
PostFailsRetries ==
    /\ postPc = "awaitPost"
    /\ postsSent < 2
    /\ postPc' = "awaitPost"
    /\ postsSent' = postsSent + 1
    /\ UNCHANGED <<handlerVars, callVars, historyVars, validatorVars,
                   mapperVars,
                   serverTelemetryManager, telemetryCache, postStatus,
                   postOutcome, clearCalls>>

\* line 126: sendPostRequest rejected
PostFails ==
    /\ postPc = "awaitPost"
    /\ postPc' = "done"
    /\ postOutcome' = [kind |-> "error", status |-> 0]
    /\ UNCHANGED <<handlerVars, callVars, historyVars, validatorVars,
                   mapperVars,
                   serverTelemetryManager, telemetryCache, postStatus,
                   postsSent, clearCalls>>

NextPost ==
    \/ \E code \in {"invalid_grant", "timeout"} : CacheFailedRequest(code)
    \/ PostStart
    \/ \E status \in Statuses : PostResponds(status)
    \/ PostFails

(***************************************************************************)
(* Specifications                                                          *)
(***************************************************************************)
Init == InitHandler /\ InitValidator /\ InitMapper /\ InitClient

\* the client is built with or without a telemetry manager
InitPost ==
    /\ InitHandler
    /\ InitValidator
    /\ InitMapper
    /\ serverTelemetryManager \in BOOLEAN
    /\ telemetryCache = EmptyTelemetry
    /\ postPc = "idle"
    /\ postStatus = 0
    /\ postOutcome = NoPostOutcome
    /\ postsSent = 0
    /\ clearCalls = 0

\* concurrent calls of handleServerTokenResponse on one cache
Spec == Init /\ [][Next]_vars

\* the arguments of a validator call; a token response carries no state
InitValidate ==
    /\ InitHandler
    /\ store = LoggedInStore
    /\ persistencePlugin
    /\ serializableCache
    /\ InitMapper
    /\ InitClient
    /\ vOutcome = "none"
    /\ \/ vInput \in [validator : {"code"}, resp : ResponseHashes,
                      cachedState : CachedStates]
       \/ vInput \in [validator : {"token"},
                      resp : {r \in ResponseHashes : r.state = <<>>},
                      cachedState : {<<>>}]

\* calls of the validators
SpecValidate == InitValidate /\ [][NextValidate]_vars

\* calls of executePostToTokenEndpoint
SpecPost == InitPost /\ [][NextPost]_vars

\* the arguments of a mapping call.  generateCacheRecord runs after lines
\* 114-153 have set the home account identifier; handleServerTokenResponse
\* is called on a new handler or on one that has handled the response of
\* an earlier login.
InitMap ==
    /\ InitCalls
    /\ store = LoggedInStore
    /\ persistencePlugin = FALSE
    /\ serializableCache = FALSE
    /\ InitValidator
    /\ InitClient
    /\ mOutput = NoMapOutput
    /\ mSignCalls = 0
    /\ \/ /\ mInput \in AccountInputs
          /\ homeAccountIdentifier = Undefined
          /\ clientInfo = Null
       \/ /\ mInput \in RecordInputs
          /\ LET d == DeriveHomeAccountId(Undefined, Null, mInput.resp) IN
                /\ homeAccountIdentifier =
                        SubClaimFallback(d.hai, IdTokenObjOf(mInput.resp))
                /\ clientInfo = d.clientInfo
       \/ /\ mInput \in HandleRequests
          /\ \/ homeAccountIdentifier = Undefined /\ clientInfo = Null
             \/ /\ homeAccountIdentifier = "u1.t1"
                /\ clientInfo = [uid |-> "u1", utid |-> "t1"]

\* calls of the mapping functions and of handleServerTokenResponse
SpecMap == InitMap /\ [][NextMap]_vars

(***************************************************************************)
(* Properties of handleServerTokenResponse                                 *)
(***************************************************************************)
\* the errors thrown by lines 114-161
PreStoreErrors ==
    {"ClientInfoDecodingError", "NonceMismatchError", "InvalidStateError",
     "InvalidCacheEnvironmentError", "ClientInfoEmptyError"}

FailedBeforeStore(c) ==
    outcome[c].kind = "error" /\ outcome[c].error \in PreStoreErrors

\* the call has entered the try block of line 163
ReachedStoreStage(c) == pc[c] # "idle" /\ ~FailedBeforeStore(c)

PastTry == {"awaitAfter", "assemble", "awaitPop", "done"}

\* C1: a call that reaches the store stage with persistence configured
\* invokes beforeCacheAccess exactly once and, by the time it has ended on
\* any path, afterCacheAccess exactly once and only after it; without the
\* plugin or the serializable cache neither hook is ever invoked.
C1_HooksPaired ==
    \A c \in Calls :
        /\ afterCalls[c] <= beforeCalls[c]
        /\ beforeCalls[c] <= 1
        /\ ~PersistenceEnabled => beforeCalls[c] = 0 /\ afterCalls[c] = 0
        /\ PersistenceEnabled /\ ReachedStoreStage(c) => beforeCalls[c] = 1
        /\ PersistenceEnabled /\ ReachedStoreStage(c) /\ pc[c] = "done"
                => afterCalls[c] = 1
        /\ afterCalls[c] = 1 => pc[c] \in PastTry

\* one call left through a failing beforeCacheAccess and another through
\* the refresh guard, each with one hook pair
C1_Witness ==
    \E c, d \in Calls :
        /\ outcome[c] = Rejected("BeforeCacheAccessError")
        /\ outcome[d] = ResolvedNull
        /\ beforeCalls[c] = 1 /\ afterCalls[c] = 1
        /\ beforeCalls[d] = 1 /\ afterCalls[d] = 1

\* C2 as stated: a refresh call whose account is absent at the guard lookup
\* writes nothing and returns null.
C2_AsStated ==
    \A c \in Calls :
        lookedUp[c] = "absent" /\ pc[c] = "done"
            => wrote[c] = {} /\ outcome[c] = ResolvedNull

\* C2 amended: a refresh call whose account is absent at the guard lookup
\* writes nothing, no step of it changes the store, it never assembles a
\* result, and it returns null unless afterCacheAccess raises, in which
\* case that error reaches the caller.
C2_GuardWritesNothing ==
    /\ [](\A c \in Calls :
            lookedUp[c] = "absent" =>
                /\ wrote[c] = {}
                /\ signCalls[c] = 0
                /\ pc[c] \in {"finally", "awaitAfter", "done"}
                /\ pc[c] = "done" =>
                    \/ outcome[c] = ResolvedNull
                    \/ /\ PersistenceEnabled
                       /\ outcome[c] = Rejected("AfterCacheAccessError"))
    /\ [][\A c \in Calls :
            lookedUp'[c] = "absent" /\ pc'[c] # pc[c] => store' = store]_vars

\* a refresh call returned null while the store held other entities
C2_Witness ==
    \E c \in Calls :
        /\ lookedUp[c] = "absent"
        /\ outcome[c] = ResolvedNull
        /\ args[c].handlingRefreshTokenResponse
        /\ cacheRecord[c].account # Null

\* the account an entity belongs to is in the store
OwnerPresent(st, e) ==
    \E a \in st :
        /\ a.credentialType = "Account"
        /\ a.homeAccountId = e.homeAccountId
        /\ a.environment = e.environment

\* C3: the store write of a refresh call creates no account that was not
\* in the store and writes token entities only for an account that is in
\* the store.
C3_RefreshWritesOnlyForPresentAccount ==
    [][\A c \in Calls :
        args[c].handlingRefreshTokenResponse /\ wrote'[c] # wrote[c] =>
            \A e \in wrote'[c] :
                CASE e.credentialType = "Account" ->
                        GetAccount(store, GenerateAccountKey(e)) # Null
                  [] e.credentialType = "AppMetadata" -> TRUE
                  [] OTHER -> OwnerPresent(store, e)]_vars

\* C4: from its guard lookup to its write a call holds the thread, so no
\* other call and no removal acts on the store between the two; both lie
\* inside its beforeCacheAccess/afterCacheAccess window; hence a refresh
\* call writes its account only while the account is in the store.
C4_LookupAndWriteAdjacent ==
    \A c \in Calls :
        /\ pc[c] = "save" /\ GuardApplies(c) =>
            /\ lookedUp[c] = "present"
            /\ running = c
            /\ GetAccount(store, GenerateAccountKey(cacheRecord[c].account)) # Null
        /\ pc[c] \in {"guard", "save"} /\ PersistenceEnabled =>
            beforeCalls[c] = 1 /\ afterCalls[c] = 0
        /\ GuardApplies(c) /\ wrote[c] # {} => lookedUp[c] = "present"

\* a refresh call stands between its lookup and its write while another
\* call is suspended in one of its awaits
C4_Witness ==
    \E c, d \in Calls :
        /\ pc[c] = "save" /\ lookedUp[c] = "present"
        /\ Suspends(pc[d])
        /\ PersistenceEnabled

\* C5: an error raised before the store stage reaches the caller with the
\* store unchanged by the call, nothing written and no hook invoked.
C5_EarlyErrorsTouchNothing ==
    /\ [](\A c \in Calls :
            FailedBeforeStore(c) =>
                /\ wrote[c] = {}
                /\ lookedUp[c] = "none"
                /\ beforeCalls[c] = 0 /\ afterCalls[c] = 0 /\ signCalls[c] = 0)
    /\ [][\A c \in Calls :
            pc[c] = "idle" /\ pc'[c] = "done" =>
                /\ store' = store
                /\ outcome'[c].error \in PreStoreErrors]_vars

\* two calls failed before the store stage, with persistence configured and
\* a store that holds entities
C5_Witness ==
    \E c, d \in Calls :
        /\ outcome[c] = Rejected("NonceMismatchError")
        /\ outcome[d] = Rejected("ClientInfoDecodingError")
        /\ PersistenceEnabled
        /\ store # {}

\* C6 as stated: with persistence configured, an error of the store read,
\* the store write or beforeCacheAccess reaches the caller after
\* afterCacheAccess was invoked, and no result is assembled.
C6_AsStated ==
    \A c \in Calls :
        PersistenceEnabled /\ pending[c].kind = "throw" /\ pc[c] = "done" =>
            /\ afterCalls[c] = 1
            /\ signCalls[c] = 0
            /\ outcome[c] = Rejected(pending[c].error)

\* C6 amended: with persistence configured, after an error of the store
\* read, the store write or beforeCacheAccess, afterCacheAccess is invoked
\* and then the call fails: with the original error when afterCacheAccess
\* completes, with the error of afterCacheAccess when that raises; no
\* result is returned and result assembly is never started.
C6_ErrorsAfterEndHook ==
    \A c \in Calls :
        PersistenceEnabled /\ pending[c].kind = "throw" =>
            /\ signCalls[c] = 0
            /\ pc[c] \in {"finally", "awaitAfter", "done"}
            /\ pc[c] = "done" =>
                /\ afterCalls[c] = 1
                /\ outcome[c] \in {Rejected(pending[c].error),
                                   Rejected("AfterCacheAccessError")}

\* a store write failed and its error reached the caller after the end hook
C6_Witness ==
    \E c \in Calls :
        /\ PersistenceEnabled
        /\ pending[c] = Throw("StoreWriteError")
        /\ outcome[c] = Rejected("StoreWriteError")
        /\ afterCalls[c] = 1

\* C7: when the proof-of-possession signature fails, the call fails with
\* that error after its record was written and afterCacheAccess invoked,
\* and the failure leaves the store as it is.
C7_SignFailureKeepsWrite ==
    /\ [](\A c \in Calls :
            outcome[c] = Rejected("PopSignError") =>
                /\ wrote[c] = RecordEntities(cacheRecord[c])
                /\ wrote[c] # {}
                /\ PersistenceEnabled => afterCalls[c] = 1)
    /\ [][\A c \in Calls :
            pc[c] = "awaitPop" /\ pc'[c] = "done" => store' = store]_vars

\* a signature failed while the record of the call is in the store
C7_Witness ==
    \E c \in Calls :
        /\ outcome[c] = Rejected("PopSignError")
        /\ wrote[c] # {}
        /\ wrote[c] \subseteq store
        /\ afterCalls[c] = 1

\* C19: with persistence configured, a call has derived the identifier,
\* checked the nonce, parsed the state and built the record, without error,
\* before it invokes beforeCacheAccess, and none of them changes later;
\* its guard lookup and its write happen after beforeCacheAccess has
\* returned and before afterCacheAccess is invoked; result assembly and
\* signing start only after afterCacheAccess has returned.
C19_StepOrder ==
    /\ [](\A c \in Calls : PersistenceEnabled =>
            /\ beforeCalls[c] > 0 => pc[c] # "idle" /\ ~FailedBeforeStore(c)
            /\ pc[c] \in {"idle", "awaitBefore"} =>
                    /\ lookedUp[c] = "none" /\ wrote[c] = {}
                    /\ afterCalls[c] = 0 /\ signCalls[c] = 0
            /\ pc[c] \in {"guard", "save"} =>
                    beforeCalls[c] = 1 /\ afterCalls[c] = 0
            /\ pc[c] \in {"finally", "awaitAfter"} =>
                    signCalls[c] = 0 /\ outcome[c].kind = "none"
            /\ pc[c] \in {"assemble", "awaitPop"} \/ signCalls[c] > 0
                    \/ outcome[c].kind = "result" => afterCalls[c] = 1)
    /\ [][\A c \in Calls :
            /\ pc[c] # "idle" /\ pc'[c] # pc[c] =>
                    /\ homeAccountIdentifier' = homeAccountIdentifier
                    /\ cacheRecord'[c] = cacheRecord[c]
                    /\ idTokenObj'[c] = idTokenObj[c]
                    /\ requestStateObj'[c] = requestStateObj[c]
            /\ lookedUp'[c] # lookedUp[c] \/ wrote'[c] # wrote[c] =>
                    /\ pc[c] \in {"guard", "save"}
                    /\ afterCalls'[c] = 0
                    /\ PersistenceEnabled => beforeCalls[c] = 1
            /\ \/ signCalls'[c] # signCalls[c]
               \/ outcome'[c].kind = "result" /\ outcome[c].kind # "result"
               =>
                    /\ pc[c] \in {"assemble", "awaitPop"}
                    /\ PersistenceEnabled => afterCalls[c] = 1]_vars

\* with persistence configured, one call went through both hooks, the
\* write and the signature, and another through the guard lookup
C19_Witness ==
    \E c, d \in Calls :
        /\ PersistenceEnabled
        /\ outcome[c].kind = "result"
        /\ signCalls[c] = 1
        /\ wrote[c] # {}
        /\ beforeCalls[c] = 1 /\ afterCalls[c] = 1
        /\ lookedUp[d] = "present"
        /\ pc[d] = "done"

\* the call went past validation and is not stopped by the refresh guard
WritesDue(c) ==
    /\ pc[c] = "done"
    /\ ~FailedBeforeStore(c)
    /\ ~args[c].handlingRefreshTokenResponse \/ lookedUp[c] = "present"

\* C20 as stated: after a call that is not a refresh flow and passed
\* validation, or a refresh call whose account was present at the lookup,
\* every entity of its record is in the store.
C20_AsStated ==
    \A c \in Calls :
        WritesDue(c) => RecordEntities(cacheRecord[c]) \subseteq store

\* C20 amended: such a call writes its whole record, whether or not the
\* account is in the store, unless beforeCacheAccess or the store write
\* raises, and then it writes nothing; the write is one step that puts
\* every entity of the record into the store, so a call has written either
\* nothing or its whole record.
C20_WholeRecordWritten ==
    /\ [](\A c \in Calls :
            /\ wrote[c] \in {{}, RecordEntities(cacheRecord[c])}
            /\ WritesDue(c) =>
                    \/ wrote[c] = RecordEntities(cacheRecord[c]) /\ wrote[c] # {}
                    \/ /\ wrote[c] = {}
                       /\ pending[c] \in {Throw("BeforeCacheAccessError"),
                                          Throw("StoreWriteError")})
    /\ [][\A c \in Calls :
            /\ wrote'[c] # wrote[c] =>
                    /\ wrote[c] = {}
                    /\ wrote'[c] = RecordEntities(cacheRecord[c])
                    /\ wrote'[c] \subseteq store'
                    /\ cacheRecord[c].account # Null =>
                            GetAccount(store', GenerateAccountKey(
                                cacheRecord[c].account)) = cacheRecord[c].account
            /\ pc[c] = "save" /\ pc'[c] # "save" /\ wrote'[c] = {} =>
                    store' = store]_vars

\* two logins of one identity have each written their whole record, the
\* later one replacing the account of the earlier
C20_Witness ==
    \E c, d \in Calls :
        /\ c # d
        /\ ~args[c].handlingRefreshTokenResponse
        /\ ~args[d].handlingRefreshTokenResponse
        /\ outcome[c].kind = "result" /\ outcome[d].kind = "result"
        /\ wrote[c] = RecordEntities(cacheRecord[c])
        /\ wrote[d] = RecordEntities(cacheRecord[d])
        /\ cacheRecord[c].account # Null
        /\ cacheRecord[c].account = cacheRecord[d].account
        /\ cacheRecord[c].account \in store

(***************************************************************************)
(* Properties of executePostToTokenEndpoint                                *)
(***************************************************************************)
\* C8: when the response arrives the telemetry cache is cleared if a
\* telemetry manager is configured and the status is below 500 and not 429,
\* and is left as it was otherwise; the response is returned either way.
C8_TelemetryClearedByStatus ==
    /\ [][postPc = "awaitPost" /\ postOutcome'.kind = "response" =>
            /\ postOutcome'.status = postStatus'
            /\ IF postStatus' >= 500 \/ postStatus' = 429
                  \/ ~serverTelemetryManager
               THEN telemetryCache' = telemetryCache /\ clearCalls' = clearCalls
               ELSE telemetryCache' = EmptyTelemetry
                    /\ clearCalls' = clearCalls + 1]_vars
    /\ [](postPc = "done" /\ postOutcome.kind = "response" =>
            /\ postOutcome.status \in Statuses
            /\ clearCalls = 1 <=>
                    /\ serverTelemetryManager
                    /\ postStatus < 500
                    /\ postStatus # 429
            /\ clearCalls <= 1)

\* a 429 came back and the recorded failures are still in the cache
C8_Witness ==
    /\ postPc = "done"
    /\ postOutcome = [kind |-> "response", status |-> 429]
    /\ serverTelemetryManager
    /\ telemetryCache.failedRequests # <<>>
    /\ clearCalls = 0

\* C22: when the POST is rejected the call ends with the error, the
\* telemetry cache is as it was and clearTelemetryCache was not called;
\* a call ends only by a response or by the error, and every call has
\* issued exactly one POST.
C22_PostFailurePropagates ==
    /\ [][postPc = "awaitPost" /\ postOutcome'.kind = "error" =>
            /\ postPc' = "done"
            /\ telemetryCache' = telemetryCache
            /\ clearCalls' = clearCalls
            /\ postsSent' = postsSent]_vars
    /\ [][postPc = "awaitPost" /\ postPc' # "awaitPost" =>
            /\ postPc' = "done"
            /\ postOutcome'.kind \in {"response", "error"}]_vars
    /\ [](postPc = "done" /\ postOutcome.kind = "error" => clearCalls = 0)
    /\ [](postPc # "idle" => postsSent = 1)

\* the POST was rejected and the recorded failures are still in the cache
C22_Witness ==
    /\ postPc = "done"
    /\ postOutcome.kind = "error"
    /\ serverTelemetryManager
    /\ telemetryCache.failedRequests # <<>>
    /\ postsSent = 1
    /\ clearCalls = 0

(***************************************************************************)
(* Properties of the validators                                            *)
(***************************************************************************)
HasErrorFields(resp) ==
    resp.error # "" \/ resp.error_description # <<>> \/ resp.suberror # ""

ErrorClass(resp) ==
    IF IsInteractionRequiredError(resp.error, resp.error_description,
                                  resp.suberror)
    THEN "InteractionRequiredAuthError"
    ELSE "ServerError"

\* C9: validateServerAuthorizationCodeResponse fails with
\* StateMismatchError exactly when the decoded response state differs from
\* the decoded cached state, whatever else the response carries.
C9_StateMismatchFirst ==
    vInput.validator = "code" /\ vOutcome # "none" =>
        LET a == DecodeURIComponent(vInput.resp.state)
            b == DecodeURIComponent(vInput.cachedState)
        IN  /\ a.ok /\ b.ok =>
                (vOutcome = "StateMismatchError" <=> a.value # b.value)
            /\ vOutcome = "StateMismatchError" => a.ok /\ b.ok

\* a response with a mismatched state, error fields and an undecodable
\* client_info failed with StateMismatchError
C9_Witness ==
    /\ vInput.validator = "code"
    /\ vOutcome = "StateMismatchError"
    /\ vInput.resp.state = <<"%", "6", "1">>
    /\ vInput.cachedState = <<"a", "a">>
    /\ vInput.resp.error = "interaction_required"
    /\ vInput.resp.client_info = "ci.garbage"

\* C10: with any of error, error_description, suberror set, both
\* validators fail (the code validator once the state matches), with
\* InteractionRequiredAuthError when the triple has the interaction
\* required signature and with ServerError otherwise, and they agree.
C10_ErrorClassification ==
    vOutcome # "none" /\ HasErrorFields(vInput.resp) =>
        /\ vInput.validator = "token" => vOutcome = ErrorClass(vInput.resp)
        /\ vInput.validator = "code"
            /\ vOutcome \notin {"StateMismatchError", "URIError"}
                => vOutcome = ErrorClass(vInput.resp)
        /\ DecodeURIComponent(vInput.resp.state).ok =>
                ValidateTokenResponse(vInput.resp)
                    = ValidateServerAuthorizationCodeResponse(
                            vInput.resp, vInput.resp.state)

\* a token response with error "interaction_required" failed with
\* InteractionRequiredAuthError
C10_Witness ==
    /\ vInput.validator = "token"
    /\ vInput.resp.error = "interaction_required"
    /\ vInput.resp.suberror = ""
    /\ vOutcome = "InteractionRequiredAuthError"

\* C11: a token response without error, error_description and suberror
\* passes validateTokenResponse, and a repeated call on it changes nothing;
\* no call of either validator, returning or raising, changes the store,
\* invokes a hook or changes the handler's home account identifier.
C11_ValidatorsHaveNoSideEffects ==
    /\ [](vInput.validator = "token" /\ ~HasErrorFields(vInput.resp)
            /\ vOutcome # "none" => vOutcome = "ok")
    /\ [][vInput.validator = "token" /\ vOutcome = "ok" => vars' = vars]_vars
    /\ [][/\ store' = store
          /\ homeAccountIdentifier' = homeAccountIdentifier
          /\ beforeCalls' = beforeCalls
          /\ afterCalls' = afterCalls
          /\ wrote' = wrote]_vars

\* the code validator accepted a response with a client_info, on a handler
\* with persistence configured whose store holds an earlier login
C11_Witness ==
    /\ vInput.validator = "code"
    /\ vInput.resp.client_info = "ci.u1.t1"
    /\ vOutcome = "ok"
    /\ store = LoggedInStore
    /\ PersistenceEnabled
    /\ homeAccountIdentifier = Undefined

(***************************************************************************)
(* Properties of the mapping and of handleServerTokenResponse as a whole   *)
(***************************************************************************)
\* a call of handleServerTokenResponse has ended
Handled == mInput.fn = "handleServerTokenResponse" /\ mOutput.kind # "none"

\* the response carries an id_token whose nonce claim differs from a
\* supplied, non-empty cached nonce
NonceDiffers(r) ==
    /\ r.resp.id_token \notin {"", Undefined}
    /\ r.cachedNonce \notin {"", Undefined}
    /\ AuthToken(r.resp.id_token).claims.nonce # r.cachedNonce

\* C12 as stated: NonceMismatchError is raised exactly when the response
\* carries an id_token, a non-empty cached nonce was supplied and the nonce
\* claim differs from it.
C12_AsStated ==
    Handled => (mOutput.err = "NonceMismatchError" <=> NonceDiffers(mInput.r))

\* C12 amended: NonceMismatchError is raised exactly when the client_info
\* of the response is absent or decodes, the response carries an id_token,
\* a non-empty cached nonce was supplied and the nonce claim differs from
\* it; an undecodable client_info fails the call before the nonce is
\* looked at; without id_token or without cached nonce the nonce check
\* never fails the call.
C12_NonceMismatchExactly ==
    Handled =>
        LET r == mInput.r
            decodes == r.resp.client_info = ""
                       \/ BuildClientInfo(r.resp.client_info).ok
        IN  /\ mOutput.err = "NonceMismatchError"
                    <=> decodes /\ NonceDiffers(r)
            /\ ~decodes => mOutput.err = "ClientInfoDecodingError"
            /\ r.resp.id_token = "" \/ r.cachedNonce \in {"", Undefined}
                    => mOutput.err # "NonceMismatchError"

\* a call with a decodable client_info, the id_token "idt.n1.s1" and the
\* cached nonce "n2" failed with NonceMismatchError
C12_Witness ==
    /\ Handled
    /\ mInput.r.resp.id_token = "idt.n1.s1"
    /\ mInput.r.cachedNonce = "n2"
    /\ mInput.r.resp.client_info = "ci.u1.t1"
    /\ mOutput.err = "NonceMismatchError"
    /\ store = LoggedInStore

\* the home account identifier the claim assigns to a response
StatedIdentifier(resp) ==
    IF resp.client_info # ""
    THEN BuildClientInfo(resp.client_info).uid \o "."
            \o BuildClientInfo(resp.client_info).utid
    ELSE IF resp.id_token # "" /\ AuthToken(resp.id_token).claims.sub # ""
    THEN AuthToken(resp.id_token).claims.sub
    ELSE ""

\* the credential entities of a record, which take their home account
\* identifier from the handler
CredentialEntities(rec) == {rec.idToken, rec.accessToken, rec.refreshToken} \ {Null}

\* C13: the home account identifier of the cache entities of a call is
\* "{uid}.{utid}" for the pair decoded from client_info, the sub claim when
\* client_info is absent and a sub claim exists, and empty when neither
\* exists.
C13_IdentifierFromResponse ==
    Handled /\ mOutput.kind \in {"result", "null"} =>
        /\ homeAccountIdentifier = StatedIdentifier(mInput.r.resp)
        /\ \A e \in CredentialEntities(mOutput.record) :
                e.homeAccountId = StatedIdentifier(mInput.r.resp)

\* generateCacheRecord was called and returned a record
RecordBuilt ==
    /\ mInput.fn = "generateCacheRecord"
    /\ mOutput.kind \in {"record", "signing", "result"}

\* C14: the record generateCacheRecord returns holds an IdToken and an
\* Account entity exactly when id_token is non-empty, an AccessToken
\* exactly when access_token is, a RefreshToken exactly when refresh_token
\* is and an AppMetadata exactly when foci is, each carrying the field of
\* the response; with an empty environment the call fails with
\* InvalidCacheEnvironmentError and returns no record.
C14_SlotsFollowFields ==
    /\ RecordBuilt =>
        LET rec == mOutput.record
            resp == mInput.resp
        IN  /\ rec.idToken # Null <=> resp.id_token # ""
            /\ rec.account # Null <=> resp.id_token # ""
            /\ rec.accessToken # Null <=> resp.access_token # ""
            /\ rec.refreshToken # Null <=> resp.refresh_token # ""
            /\ rec.appMetadata # Null <=> resp.foci # ""
            /\ rec.idToken # Null =>
                    /\ rec.idToken.credentialType = "IdToken"
                    /\ rec.idToken.secret = resp.id_token
                    /\ rec.account.credentialType = "Account"
            /\ rec.accessToken # Null =>
                    /\ rec.accessToken.credentialType = "AccessToken"
                    /\ rec.accessToken.secret = resp.access_token
            /\ rec.refreshToken # Null =>
                    /\ rec.refreshToken.credentialType = "RefreshToken"
                    /\ rec.refreshToken.secret = resp.refresh_token
            /\ rec.appMetadata # Null =>
                    /\ rec.appMetadata.credentialType = "AppMetadata"
                    /\ rec.appMetadata.familyId = resp.foci
            /\ mInput.authority.env # ""
    /\ mInput.fn = "generateCacheRecord" /\ mOutput.kind # "none"
            /\ mInput.authority.env = "" =>
        /\ mOutput.kind = "error"
        /\ mOutput.err = "InvalidCacheEnvironmentError"
        /\ mOutput.record = EmptyRecord

\* a response with nothing but an access token gave a record that holds
\* nothing but an AccessToken entity
C14_Witness ==
    /\ RecordBuilt
    /\ mInput.resp.id_token = "" /\ mInput.resp.client_info = ""
    /\ mInput.resp.refresh_token = "" /\ mInput.resp.foci = ""
    /\ mInput.resp.access_token = "AT1"
    /\ RecordEntities(mOutput.record) = {mOutput.record.accessToken}
    /\ mOutput.record.accessToken # Null

\* the timestamp the claim counts expirations from
StatedBaseline ==
    IF mInput.requestState # Null /\ mInput.requestState.libraryState # Null
    THEN mInput.requestState.libraryState.ts
    ELSE mInput.now

\* C15: the access token of the record has expiresOn = baseline +
\* expires_in and extendedExpiresOn = expiresOn + ext_expires_in, the
\* baseline being the timestamp of the library state when the request
\* state carries one and the current time otherwise; so
\* extendedExpiresOn >= expiresOn >= baseline.
C15_ExpirationArithmetic ==
    RecordBuilt /\ mOutput.record.accessToken # Null =>
        LET at == mOutput.record.accessToken IN
        /\ at.expiresOn = StatedBaseline + mInput.resp.expires_in
        /\ at.extendedExpiresOn = at.expiresOn + mInput.resp.ext_expires_in
        /\ at.extendedExpiresOn >= at.expiresOn
        /\ at.expiresOn >= StatedBaseline

\* an access token built with a library state of timestamp 100, at time
\* 500, expires at 101 and 102
C15_Witness ==
    /\ RecordBuilt
    /\ mInput.requestState # Null
    /\ mInput.requestState.libraryState = [ts |-> 100]
    /\ mInput.now = 500
    /\ mInput.resp.expires_in = 1 /\ mInput.resp.ext_expires_in = 1
    /\ mOutput.record.accessToken # Null
    /\ mOutput.record.accessToken.expiresOn = 101
    /\ mOutput.record.accessToken.extendedExpiresOn = 102

\* generateAuthenticationResult returned a result for the record that
\* generateCacheRecord built from the response
ResultAssembled ==
    /\ mInput.fn = "generateCacheRecord"
    /\ mOutput.kind = "result"

\* C16: for a response with an access token, the result assembled from the
\* record built from it has the scopes the response declares (those of the
\* request when it declares none), each once; expiresOn and extExpiresOn
\* are the expirations computed from the response, as milliseconds; and
\* tokenType is the token_type of the response.
C16_RoundTrip ==
    ResultAssembled /\ mInput.resp.access_token # "" =>
        LET res == mOutput.result
            resp == mInput.resp
            declared == IF resp.scope # <<>> THEN resp.scope
                        ELSE mInput.requestScopes
        IN  /\ {res.scopes[i] : i \in DOMAIN res.scopes}
                    = {declared[i] : i \in DOMAIN declared}
            /\ \A i, j \in DOMAIN res.scopes :
                    res.scopes[i] = res.scopes[j] => i = j
            /\ res.expiresOn = (StatedBaseline + resp.expires_in) * 1000
            /\ res.extExpiresOn =
                    (StatedBaseline + resp.expires_in + resp.ext_expires_in) * 1000
            /\ res.tokenType = resp.token_type

\* a proof-of-possession response that declares user.read twice and
\* mail.read came back as a result with these two scopes
C16_Witness ==
    /\ ResultAssembled
    /\ mInput.resp.access_token = "AT1"
    /\ mInput.resp.scope = <<"user.read", "mail.read", "user.read">>
    /\ mInput.resp.token_type = POP
    /\ Len(mOutput.result.scopes) = 2
    /\ mOutput.result.tokenType = POP
    /\ mOutput.result.expiresOn = (500 + mInput.resp.expires_in) * 1000

\* C17: generateAccountEntity yields a generic account for every ADFS
\* authority, whatever client_info and protocol mode are; otherwise fails
\* with ClientInfoEmptyError when client_info is absent and the protocol
\* mode is AAD; otherwise builds the account from client_info when it is
\* present and a generic account when it is absent.
C17_AccountDecisionOrder ==
    mInput.fn = "generateAccountEntity" /\ mOutput.kind # "none" =>
        LET authority == mInput.authority
            absent == mInput.resp.client_info \in {"", Undefined}
            idToken == AuthToken(mInput.id_token)
            account == mOutput.record.account
            generic == /\ mOutput.kind = "account"
                       /\ account = CreateGenericAccount(authority, idToken)
                       /\ account.homeAccountId = idToken.claims.sub
        IN  CASE authority.authorityType = "Adfs" -> generic
              [] authority.authorityType # "Adfs" /\ absent
                    /\ authority.protocolMode = "AAD" ->
                    /\ mOutput.kind = "error"
                    /\ mOutput.err = "ClientInfoEmptyError"
                    /\ account = Null
              [] authority.authorityType # "Adfs" /\ ~absent ->
                    /\ mOutput.kind = "account"
                    /\ account = CreateAccount(mInput.resp.client_info,
                                               authority, idToken)
                    /\ account.homeAccountId # idToken.claims.sub
              [] OTHER -> generic

\* an ADFS authority in AAD protocol mode with a client_info in the
\* response gave a generic account
C17_Witness ==
    /\ mInput.fn = "generateAccountEntity"
    /\ mInput.authority.authorityType = "Adfs"
    /\ mInput.authority.protocolMode = "AAD"
    /\ mInput.resp.client_info = "ci.u1.t1"
    /\ mOutput.kind = "account"
    /\ mOutput.record.account.homeAccountId = "s1"

\* C18: generateAuthenticationResult invokes signPopToken exactly when the
\* record holds a proof-of-possession access token, once for every result;
\* the accessToken of the result is then the signature over the secret,
\* the resource request method and the resource request URI, and is the
\* cached secret for every other token type; account is null exactly when
\* the record has no account; state is the userRequestState of the request
\* state, empty when there is none.
C18_ResultAssembly ==
    mInput.fn = "generateCacheRecord" =>
        LET rec == mOutput.record
            pop == rec.accessToken # Null /\ rec.accessToken.tokenType = "pop"
            res == mOutput.result
        IN  /\ ~pop => mSignCalls = 0
            /\ pop => mSignCalls = mOutput.results
                        + IF mOutput.kind \in {"signing", "error"} THEN 1 ELSE 0
            /\ mOutput.kind = "result" =>
                /\ pop => res.accessToken =
                        SignPopToken(rec.accessToken.secret,
                                     mInput.resourceRequestMethod,
                                     mInput.resourceRequestUri)
                /\ ~pop /\ rec.accessToken # Null =>
                        res.accessToken = mInput.resp.access_token
                /\ rec.accessToken = Null => res.accessToken = ""
                /\ res.account = Null <=> rec.account = Null
                /\ res.state = IF mInput.requestState = Null THEN ""
                               ELSE mInput.requestState.userRequestState

\* two results were assembled from a record with a proof-of-possession
\* token and no account, each with a signature of its own for POST /me
C18_Witness ==
    /\ ResultAssembled
    /\ mOutput.results = 2
    /\ mSignCalls = 2
    /\ mInput.resourceRequestMethod = "POST"
    /\ mOutput.result.accessToken = "pop(AT1,POST,/me)"
    /\ mOutput.result.account = Null
    /\ mOutput.result.state = "userA"

\* the home account identifier a handler that has handled nothing yet
\* derives for the arguments of the call
IdentifierOnNewHandler(r) == BuildRecord(Undefined, Null, r).hai

\* C21: the home account identifier in the credential entities of a call
\* is the one a new handler derives from the same response, whatever the
\* handler has handled before; after a call with the identifier u1.t1 a
\* response whose client_info has an empty uid does not get u1.t1.
C21_IdentifierOwnResponseOnly ==
    Handled /\ mOutput.kind \in {"result", "null"} =>
        \A e \in CredentialEntities(mOutput.record) :
            /\ e.homeAccountId = IdentifierOnNewHandler(mInput.r)
            /\ mInput.r.resp.client_info = "ci..t1" => e.homeAccountId # "u1.t1"

====
